---- MODULE Spec2Model ----
(***************************************************************************)
(* GeminiBridge: the bounded-concurrency execution engine.                 *)
(*                                                                         *)
(*   CLIQueueManager            src/src/utils/logger.ts  (lines 221-353)   *)
(*   executeGeminiCLI(Internal) src/unnamed/part_002     (lines 243-412)   *)
(*                                                                         *)
(* Node.js runs one macrotask (an incoming call, a timer callback, a child *)
(* process event) at a time and drains every promise continuation that the *)
(* macrotask made runnable before it takes the next one.  One action of    *)
(* this module is one macrotask together with that drain (RunMicrotasks).  *)
(***************************************************************************)
EXTENDS Integers, Sequences, FiniteSets, TLC

\* ------------------------------------------------------------------ bounds
MaxCalls     == 3   \* number of execute calls in the queue scenario
MaxK         == 2   \* largest value given to maxConcurrent
ExecCalls    == 1   \* number of execute calls in the executor scenario
MaxStdoutLen == 2   \* characters of stdout a process writes
MaxStderrLen == 1   \* characters of stderr a process writes
MaxNow       == 3   \* units of time that pass in the timed scenario
QueueTimeoutTicks == 2   \* queueTimeout in the timed scenario
MaxHttp      == 4   \* number of HTTP requests
RateMaxRequests == 2   \* config.rateLimit.maxRequests
RateWindowTicks == 2   \* config.rateLimit.windowMs
MaxExtra     == 2   \* messages of a conversation beyond MAX_MESSAGES
MaxMessages  == 2   \* messages in the body of a chat request

Calls == 1 .. MaxCalls

\* characters a child process can write on stdout; " " is whitespace
StdoutChars == {" ", "a"}
StderrChars == {"e"}

\* the transient-conflict signature of the CLI's Docker sandbox: exit code
\* 125 with the conflict message on stderr
ConflictExitCode == 125
ConflictStderr == {"Docker container conflict"}
ConflictEvents == {[code |-> ConflictExitCode, signal |-> ""]}

\* CLI_MAX_RETRIES, the documented number of retries
MaxRetries == 3

\* MIN_REQUEST_GAP_MS, the documented gap between two executions
MinGapMs == 500

\* client addresses
IPs == {"ip1", "ip2"}

\* config.bearerToken, a string of characters
BearerToken == << "a", "b" >>

\* an absent (or empty) header
NoHeader == << >>

\* the header 'Bearer <token>' with the configured token
ValidAuth == << "Bearer", " " >> \o BearerToken

\* Authorization headers: a header is a sequence of words, characters and
\* single spaces
AuthHeaders ==
    { NoHeader, ValidAuth,
      << "Bearer", " ", "a", "a" >>,         \* wrong token of the same length
      << "Bearer", " ", "a" >>,              \* a prefix of the token
      << "Bearer", " ", "a", "b", "a" >>,    \* the token and more
      << "a", "b" >>,                        \* the token without scheme
      << "bearer", " ", "a", "b" >>,         \* another scheme
      << "Bearer", " ", " ", "a", "b" >>,    \* two spaces
      << "Bearer", " ", "a", "b", " ", "a" >> }

\* the roles validateMessages accepts; a role is a string of characters
ValidRoles == { << "s", "y", "s", "t", "e", "m" >>, << "u", "s", "e", "r" >>,
                << "a", "s", "s", "i", "s", "t", "a", "n", "t" >> }

\* the role 'user'
UserRole == << "u", "s", "e", "r" >>

\* roles of a message: a valid one, one that is not, and none (or '')
Roles == { UserRole, << "t", "o", "o", "l" >>, << >> }

\* the content of a message: a string, or a value that is not a string
StringContent(text) == [type |-> "string", text |-> text]

\* content that is undefined or null
NoContent == [type |-> "undefined", text |-> << >>]

\* content that is an array of parts
ArrayContent == [type |-> "object", text |-> << >>]

\* contents of a message: absent, '', a string, an array
Contents == { NoContent, StringContent(<< >>), StringContent(<< "a" >>),
              ArrayContent }

\* a message that validateMessages accepts
UserMessage == [role |-> UserRole, content |-> StringContent(<< "a" >>)]

\* messages of a request body: the accepted one with any role or with any
\* content
Messages ==
    {[UserMessage EXCEPT !.role = r] : r \in Roles}
    \cup {[UserMessage EXCEPT !.content = c] : c \in Contents}

\* MAX_MESSAGES of the prompt builder
MAX_MESSAGES == 20

\* contents of the messages of a conversation: text with spaces and line
\* breaks inside, before and after
PromptTexts ==
    { << "a" >>, << "a", " " >>, << "a", "\n" >>, << " ", "a" >>,
      << "a", "\n", "a" >>, << " " >> }

\* the messages of a conversation: every role with every text
PromptMessages ==
    [role : ValidRoles, content : {StringContent(t) : t \in PromptTexts}]

\* conversations of up to MAX_MESSAGES + MaxExtra messages: the same
\* message throughout, but for one message, at any place
IsConversation(messages) ==
    /\ Len(messages) <= MAX_MESSAGES + MaxExtra
    /\ \E f \in {UserMessage,
                  [role |-> << "s", "y", "s", "t", "e", "m" >>,
                   content |-> StringContent(<< "a", " " >>)]} :
           Cardinality({i \in 1 .. Len(messages) : messages[i] # f}) <= 1

\* body.messages: absent, a value that is no array, or an array
NoMessages == [kind |-> "undefined", list |-> << >>]

\* body.messages is a string
StringMessages == [kind |-> "string", list |-> << >>]

\* body.messages is the array list
ArrayOf(list) == [kind |-> "array", list |-> list]

\* a body that is well-formed JSON, accepted by the chat handler
ValidBody == [json |-> TRUE, model |-> "gpt-4",
              messages |-> ArrayOf(<< UserMessage >>)]

\* a body that express.json() cannot parse
MalformedBody == [json |-> FALSE, model |-> "", messages |-> NoMessages]

\* the arrays of at most n messages of which one, at any place, is any
\* message and the others are accepted ones
MessageLists(n) ==
    { [i \in 1 .. k |-> IF i = j THEN m ELSE UserMessage] :
          k \in 0 .. n, j \in 1 .. n, m \in Messages }

\* request bodies: unparsable, without model, and with every kind of
\* messages
Bodies ==
    { MalformedBody, [ValidBody EXCEPT !.model = ""] }
    \cup [json : {TRUE}, model : {"gpt-4"},
          messages : {NoMessages, StringMessages}
                     \cup {ArrayOf(l) : l \in MessageLists(MaxMessages)}]

\* the request ids of a caller of CLIQueueManager.execute that uses an id
\* again
RequestIds == {1, 2}

\* no HTTP request yet
NoHttp == [req |-> << >>, stage |-> "", status |-> 0, code |-> "", call |-> 0]

VARIABLES
    activeRequests,   \* CLIQueueManager.activeRequests
    queue,            \* CLIQueueManager.queue: Seq of [id, timestamp, call]
    maxConcurrent,    \* CLIQueueManager.maxConcurrent
    totalProcessed,   \* CLIQueueManager.totalProcessed
    totalWaitTime,    \* CLIQueueManager.totalWaitTime
    queueTimeout,     \* CLIQueueManager.queueTimeout
    now,              \* Date.now()
    nextCall,         \* number of execute calls made so far
    requestId,        \* requestId[c]: the id passed by call c (0: not called)
    promise,          \* promise[c]: the promise returned by execute to call c
    opPromise,        \* opPromise[c]: the promise of executeGeminiCLIInternal
    timers,           \* pending queue timers (setTimeout of enqueue), in order
    proc,             \* proc[c]: "none" | "running" | "closed" (spawnedProcess)
    killed,           \* killed[c]: spawnedProcess.kill() was called
    timeout,          \* timeout[c]: "none" | "pending" | "fired" | "cleared"
    stdout,           \* stdout[c]: accumulated stdout of the process of c
    stderr,           \* stderr[c]: accumulated stderr of the process of c
    exit,             \* exit[c]: (exitCode, signalCode) of the closed process
    dirs,             \* the directories gemini-bridge-<id> that exist
    cleanupWarnings,  \* calls with a logged 'Failed to cleanup temp directory'
    spawns,           \* spawns[c]: child processes spawned for call c
    events,           \* events[c]: handlers of process c that ran, in order
    releases,         \* releases[c]: times the finally block of c ran
    started,          \* order in which operations were invoked
    calledAt,         \* calledAt[c]: Date.now() when execute was called (-1: not)
    admittedAt,       \* admittedAt[c]: Date.now() when executeImmediate began
    completedAt,      \* completedAt[c]: Date.now() when the finally block ran
    requestLogs,      \* requestLogs[ip]: timestamps kept by the rate limiter
    passed,           \* passed[ip]: arrival times the rate limiter let through
    lastHttp,         \* the latest HTTP request and the answer it got
    httpCount,        \* number of HTTP requests handled so far
    stages,           \* the stages of createApp the latest request entered
    lastPrompt        \* the latest call of buildPrompt: its argument and result

vars == << activeRequests, queue, maxConcurrent, totalProcessed, totalWaitTime,
           queueTimeout, now, nextCall, requestId, promise, opPromise, timers, proc, killed,
           timeout, stdout, stderr, exit, dirs, cleanupWarnings, spawns, events, releases, started,
           calledAt, admittedAt, completedAt, requestLogs, passed, lastHttp,
           httpCount, stages, lastPrompt >>

\* ---------------------------------------------------------------- promises
\* A promise is pending until the first resolve or reject; later calls of
\* resolve or reject leave it as it is.
NoPromise       == [state |-> "none",      value |-> << >>, reason |-> ""]
PendingPromise  == [state |-> "pending",   value |-> << >>, reason |-> ""]
Fulfilled(r)    == [state |-> "fulfilled", value |-> << r >>, reason |-> ""]
Rejected(e)     == [state |-> "rejected",  value |-> << >>, reason |-> e]

Settled(p) == p.state \in {"fulfilled", "rejected"}

\* a promise whose later resolve replaces the value of an earlier one
SettleOverwrite(p, q) == IF p.state \in {"pending", "fulfilled"} THEN q ELSE p

\* resolve / reject of a JavaScript promise: only the first call has an effect
Settle(p, q) == IF p.state = "pending" THEN q ELSE p

\* ----------------------------------------------------------------- strings
\* a string is a sequence of one-character strings
IsSpace(ch) == ch \in {" ", "\n"}

RECURSIVE TrimStart(_)
TrimStart(s) ==
    IF s # << >> /\ IsSpace(Head(s)) THEN TrimStart(Tail(s)) ELSE s

RECURSIVE TrimEnd(_)
TrimEnd(s) ==
    IF s # << >> /\ IsSpace(s[Len(s)])
    THEN TrimEnd(SubSeq(s, 1, Len(s) - 1))
    ELSE s

\* String.prototype.trim
Trim(s) == TrimEnd(TrimStart(s))

\* ----------------------------------------------------------------- results
\* CLIExecutionResult without executionTime
TimeoutResult ==
    [success |-> FALSE, content |-> << >>, error |-> "Execution timeout",
     exitCode |-> -1, stderr |-> << "Process killed due to timeout" >>]

SpawnErrorResult(err) ==
    [success |-> FALSE, content |-> << >>, error |-> "spawn error",
     exitCode |-> -1, stderr |-> err]

\* the close event carries (code, signal); code is null when signal is set
CloseEvents ==
    { [code |-> 0, signal |-> ""], [code |-> 1, signal |-> ""],
      [code |-> 0, signal |-> "SIGTERM"] }

\* exitCode and signalCode of a process that has not ended
NoExit == [code |-> 0, signal |-> "none"]

\* a process that exits with code 0
OkEvents == {[code |-> 0, signal |-> ""]}

CodeIsNull(ev) == ev.signal # ""

\* code !== 0
CodeNotZero(ev) == CodeIsNull(ev) \/ ev.code # 0

\* code || -1
CodeOrMinusOne(ev) == IF CodeIsNull(ev) \/ ev.code = 0 THEN -1 ELSE ev.code

\* a close handler that tests and returns stdout without trimming it
CloseResultNoTrim(ev, out, err) ==
    IF CodeNotZero(ev)
    THEN [success |-> FALSE, content |-> << >>, error |-> "CLI exited with code",
          exitCode |-> CodeOrMinusOne(ev), stderr |-> err]
    ELSE IF out = << >>
    THEN [success |-> FALSE, content |-> << >>,
          error |-> "Empty response from CLI", exitCode |-> 0, stderr |-> err]
    ELSE [success |-> TRUE, content |-> out, error |-> "",
          exitCode |-> 0, stderr |-> err]

\* the result the close handler passes to resolve
CloseResult(ev, out, err) ==
    IF CodeNotZero(ev)
    THEN [success |-> FALSE, content |-> << >>, error |-> "CLI exited with code",
          exitCode |-> CodeOrMinusOne(ev), stderr |-> err]
    ELSE IF Trim(out) = << >>
    THEN [success |-> FALSE, content |-> << >>,
          error |-> "Empty response from CLI", exitCode |-> 0, stderr |-> err]
    ELSE [success |-> TRUE, content |-> Trim(out), error |-> "",
          exitCode |-> 0, stderr |-> err]

\* ------------------------------------------------------------------- state
\* the current state as one record, so that a handler is a function from
\* state to state; microtasks holds the calls whose executeImmediate is
\* suspended at `await operation()` on a promise that has settled
cur ==
    [activeRequests |-> activeRequests, queue |-> queue,
     maxConcurrent |-> maxConcurrent, totalProcessed |-> totalProcessed,
     totalWaitTime |-> totalWaitTime, queueTimeout |-> queueTimeout,
     now |-> now, nextCall |-> nextCall,
     requestId |-> requestId, promise |-> promise, opPromise |-> opPromise,
     timers |-> timers, proc |-> proc, killed |-> killed, timeout |-> timeout,
     stdout |-> stdout, stderr |-> stderr, exit |-> exit, dirs |-> dirs,
     cleanupWarnings |-> cleanupWarnings,
     spawns |-> spawns, events |-> events,
     releases |-> releases, started |-> started, calledAt |-> calledAt,
     admittedAt |-> admittedAt, completedAt |-> completedAt,
     requestLogs |-> requestLogs, passed |-> passed, lastHttp |-> lastHttp,
     httpCount |-> httpCount, stages |-> stages,
     lastPrompt |-> lastPrompt, microtasks |-> << >>]

\* the next state is s, evaluated once
Apply(s) ==
  \E t \in {s} :
    /\ activeRequests' = t.activeRequests
    /\ queue' = t.queue
    /\ maxConcurrent' = t.maxConcurrent
    /\ totalProcessed' = t.totalProcessed
    /\ totalWaitTime' = t.totalWaitTime
    /\ queueTimeout' = t.queueTimeout
    /\ now' = t.now
    /\ nextCall' = t.nextCall
    /\ requestId' = t.requestId
    /\ promise' = t.promise
    /\ opPromise' = t.opPromise
    /\ timers' = t.timers
    /\ proc' = t.proc
    /\ killed' = t.killed
    /\ timeout' = t.timeout
    /\ stdout' = t.stdout
    /\ stderr' = t.stderr
    /\ exit' = t.exit
    /\ dirs' = t.dirs
    /\ cleanupWarnings' = t.cleanupWarnings
    /\ spawns' = t.spawns
    /\ events' = t.events
    /\ releases' = t.releases
    /\ started' = t.started
    /\ calledAt' = t.calledAt
    /\ admittedAt' = t.admittedAt
    /\ completedAt' = t.completedAt
    /\ requestLogs' = t.requestLogs
    /\ passed' = t.passed
    /\ lastHttp' = t.lastHttp
    /\ httpCount' = t.httpCount
    /\ stages' = t.stages
    /\ lastPrompt' = t.lastPrompt

\* ------------------------------------------------- executeGeminiCLIInternal
\* resolve(...) of the promise built at part_002:270; the continuation of
\* `await operation()` becomes runnable when the promise settles
\* resolve whose continuation runs on every call, not only on the first
ResolveOpEveryCall(s, c, r) ==
    [s EXCEPT !.opPromise[c] = Settle(@, Fulfilled(r)),
              !.microtasks = Append(@, c)]

ResolveOp(s, c, r) ==
    [s EXCEPT !.opPromise[c] = Settle(@, Fulfilled(r)),
              !.microtasks = IF s.opPromise[c].state = "pending"
                             THEN Append(@, c) ELSE @]

\* one directory name for every invocation
WorkDirShared(s, c) == 0

\* path.join(os.tmpdir(), `gemini-bridge-${requestId}`): a directory is
\* named by the request id in it
WorkDir(s, c) == s.requestId[c]

\* clearTimeout(timeout)
ClearTimeout(t) == IF t = "pending" THEN "cleared" ELSE t

\* executeGeminiCLIInternal up to the point where it returns its promise.
\* c \in F: existsSync/mkdirSync throws, so the async function returns a
\* rejected promise and nothing is spawned.
ExecuteGeminiCLIInternal(s, c, F) ==
    IF c \in F
    THEN [s EXCEPT !.opPromise[c] = Rejected("mkdir failed"),
                   !.started = Append(@, c),
                   !.microtasks = Append(@, c)]
    ELSE [s EXCEPT !.dirs = @ \cup {WorkDir(s, c)},
                   !.spawns[c] = @ + 1,
                   !.proc[c] = "running",
                   !.timeout[c] = "pending",
                   !.opPromise[c] = PendingPromise,
                   !.started = Append(@, c)]

\* the callback of setTimeout at part_002:310
TimeoutHandler(s, c) ==
    ResolveOp([s EXCEPT !.killed[c] = TRUE,
                        !.timeout[c] = "fired",
                        !.events[c] = Append(@, "timeout")],
              c, TimeoutResult)

\* a close handler that spawns the process again after a non-zero exit
\* instead of resolving with the failure
CloseHandlerRespawn(s, c, ev, rmOk) ==
    IF CodeNotZero(ev)
    THEN [s EXCEPT !.spawns[c] = @ + 1,
                   !.timeout[c] = "pending",
                   !.stdout[c] = << >>,
                   !.stderr[c] = << >>,
                   !.events[c] = Append(@, "close")]
    ELSE ResolveOp([s EXCEPT !.timeout[c] = ClearTimeout(@),
                             !.dirs = IF rmOk THEN @ \ {WorkDir(s, c)} ELSE @,
                             !.cleanupWarnings =
                                 IF ~rmOk /\ WorkDir(s, c) \in s.dirs
                                 THEN @ \cup {c} ELSE @,
                             !.proc[c] = "closed",
                             !.exit[c] = ev,
                             !.stdout[c] = << >>,
                             !.stderr[c] = << >>,
                             !.events[c] = Append(@, "close")],
                   c, CloseResult(ev, s.stdout[c], s.stderr[c]))

\* a close handler that does not remove the directory
CloseHandlerKeepsDir(s, c, ev, rmOk) ==
    ResolveOp([s EXCEPT !.timeout[c] = ClearTimeout(@),
                        !.proc[c] = "closed",
                        !.exit[c] = ev,
                        !.stdout[c] = << >>,
                        !.stderr[c] = << >>,
                        !.events[c] = Append(@, "close")],
              c, CloseResult(ev, s.stdout[c], s.stderr[c]))

\* a close handler in which a throw of rmSync is not caught: the handler
\* ends there, nothing is logged and the promise is not resolved
CloseHandlerThrows(s, c, ev, rmOk) ==
    IF rmOk
    THEN ResolveOp([s EXCEPT !.timeout[c] = ClearTimeout(@),
                             !.dirs = @ \ {WorkDir(s, c)},
                             !.proc[c] = "closed",
                             !.exit[c] = ev,
                             !.stdout[c] = << >>,
                             !.stderr[c] = << >>,
                             !.events[c] = Append(@, "close")],
                   c, CloseResult(ev, s.stdout[c], s.stderr[c]))
    ELSE [s EXCEPT !.timeout[c] = ClearTimeout(@),
                   !.proc[c] = "closed",
                   !.exit[c] = ev,
                   !.stdout[c] = << >>,
                   !.stderr[c] = << >>,
                   !.events[c] = Append(@, "close")]

\* spawnedProcess.on('close', ...); rmOk = FALSE: rmSync throws, which is
\* caught and logged.
\* No event of the process follows its close event, so the locals stdout
\* and stderr of the invocation are dead from here on and are forgotten.
CloseHandler(s, c, ev, rmOk) ==
    ResolveOp([s EXCEPT !.timeout[c] = ClearTimeout(@),
                        !.dirs = IF rmOk THEN @ \ {WorkDir(s, c)} ELSE @,
                        !.cleanupWarnings =
                            IF ~rmOk /\ WorkDir(s, c) \in s.dirs
                            THEN @ \cup {c} ELSE @,
                        !.proc[c] = "closed",
                        !.exit[c] = ev,
                        !.stdout[c] = << >>,
                        !.stderr[c] = << >>,
                        !.events[c] = Append(@, "close")],
              c, CloseResult(ev, s.stdout[c], s.stderr[c]))

\* an error handler that leaves the timeout timer running
ErrorHandlerNoClear(s, c) ==
    ResolveOp([s EXCEPT !.events[c] = Append(@, "error")],
              c, SpawnErrorResult(s.stderr[c]))

\* spawnedProcess.on('error', ...)
ErrorHandler(s, c) ==
    ResolveOp([s EXCEPT !.timeout[c] = ClearTimeout(@),
                        !.events[c] = Append(@, "error")],
              c, SpawnErrorResult(s.stderr[c]))

\* --------------------------------------------------------- CLIQueueManager
\* executeImmediate up to `await operation()`
ExecuteImmediate(s, c, F) ==
    ExecuteGeminiCLIInternal([s EXCEPT !.activeRequests = @ + 1,
                                       !.admittedAt[c] = s.now], c, F)

\* queueEntry.resolve up to `await this.executeImmediate(...)`
QueueEntryResolve(s, e, F) ==
    ExecuteImmediate(
        [s EXCEPT !.totalWaitTime = @ + (s.now - e.timestamp)], e.call, F)

\* processQueue that admits while activeRequests <= maxConcurrent
RECURSIVE ProcessQueueOffByOne(_, _)
ProcessQueueOffByOne(s, F) ==
    IF Len(s.queue) > 0 /\ s.activeRequests <= s.maxConcurrent
    THEN ProcessQueueOffByOne(
             QueueEntryResolve([s EXCEPT !.queue = Tail(@)], Head(s.queue), F),
             F)
    ELSE s

\* processQueue that takes the newest entry (pop) instead of the oldest
RECURSIVE ProcessQueueLifo(_, _)
ProcessQueueLifo(s, F) ==
    IF Len(s.queue) > 0 /\ s.activeRequests < s.maxConcurrent
    THEN ProcessQueueLifo(
             QueueEntryResolve(
                 [s EXCEPT !.queue = SubSeq(@, 1, Len(@) - 1)],
                 s.queue[Len(s.queue)], F),
             F)
    ELSE s

RECURSIVE ProcessQueue(_, _)
ProcessQueue(s, F) ==
    IF Len(s.queue) > 0 /\ s.activeRequests < s.maxConcurrent
    THEN ProcessQueue(
             QueueEntryResolve([s EXCEPT !.queue = Tail(@)], Head(s.queue), F),
             F)
    ELSE s

\* a finally block that releases the slot without calling processQueue
FinallyNoProcessQueue(s, c, F) ==
    [s EXCEPT !.activeRequests = @ - 1,
              !.totalProcessed = @ + 1,
              !.releases[c] = @ + 1,
              !.completedAt[c] = s.now,
              !.promise[c] = Settle(@, s.opPromise[c])]

\* executeImmediate from the end of `await operation()`: the finally block,
\* then the result (or the error) settles the promise given to the caller
Finally(s, c, F) ==
    LET s1 == [s EXCEPT !.activeRequests = @ - 1,
                        !.totalProcessed = @ + 1,
                        !.releases[c] = @ + 1,
                        !.completedAt[c] = s.now]
        s2 == ProcessQueue(s1, F)
    IN  [s2 EXCEPT !.promise[c] = Settle(@, s.opPromise[c])]

\* the promise continuations that run before the next macrotask
RECURSIVE RunMicrotasks(_, _)
RunMicrotasks(s, F) ==
    IF s.microtasks = << >>
    THEN s
    ELSE RunMicrotasks(
             Finally([s EXCEPT !.microtasks = Tail(@)], Head(s.microtasks), F),
             F)

\* enqueue: push the entry and start its timer
Enqueue(s, c) ==
    [s EXCEPT !.queue = Append(@, [id |-> s.requestId[c],
                                   timestamp |-> s.now, call |-> c]),
              !.timers = Append(@, [id |-> s.requestId[c], call |-> c,
                                    due |-> s.now + s.queueTimeout])]

\* this.queue.findIndex(q => q.id === requestId), 1-based, 0 for -1
FindIndex(q, id) ==
    IF \E i \in 1 .. Len(q) : q[i].id = id
    THEN CHOOSE i \in 1 .. Len(q) :
             /\ q[i].id = id
             /\ \A j \in 1 .. (i - 1) : q[j].id # id
    ELSE 0

\* this.queue.splice(index, 1)
Splice(q, index) == SubSeq(q, 1, index - 1) \o SubSeq(q, index + 1, Len(q))

\* a timer callback that rejects without looking for the entry
QueueTimerHandlerNoLookup(s, t) ==
    LET index == FindIndex(s.queue, t.id)
    IN  [s EXCEPT !.queue = IF index # 0 THEN Splice(@, index) ELSE @,
                  !.promise[t.call] = Settle(@, Rejected("Request timeout"))]

\* the callback of setTimeout in enqueue; t is the timer of call t.call
QueueTimerHandler(s, t) ==
    LET index == FindIndex(s.queue, t.id)
    IN  IF index # 0
        THEN [s EXCEPT !.queue = Splice(@, index),
                       !.promise[t.call] = Settle(@, Rejected("Request timeout"))]
        ELSE s

\* execute that admits while activeRequests <= maxConcurrent
ExecuteHandlerOffByOne(s, c, id, F) ==
    LET s0 == [s EXCEPT !.nextCall = c, !.requestId[c] = id,
                        !.promise[c] = PendingPromise,
                        !.calledAt[c] = s.now]
    IN  IF s0.activeRequests <= s0.maxConcurrent
        THEN ExecuteImmediate(s0, c, F)
        ELSE Enqueue(s0, c)

\* execute(requestId, operation) as call number c
ExecuteHandler(s, c, id, F) ==
    LET s0 == [s EXCEPT !.nextCall = c, !.requestId[c] = id,
                        !.promise[c] = PendingPromise,
                        !.calledAt[c] = s.now]
    IN  IF s0.activeRequests < s0.maxConcurrent
        THEN ExecuteImmediate(s0, c, F)
        ELSE Enqueue(s0, c)

\* Math.floor in the place of Math.round
MathFloor(w, p) == w \div p

\* Math.round(w / p) for integers w >= 0 and p > 0
MathRound(w, p) == (2 * w + p) \div (2 * p)

\* getStats that reports the pending queue timers as queued requests
GetStatsCountsTimers(s) ==
    [activeRequests |-> s.activeRequests,
     queuedRequests |-> Len(s.timers),
     totalProcessed |-> s.totalProcessed,
     averageWaitTime |-> IF s.totalProcessed > 0
                         THEN MathRound(s.totalWaitTime, s.totalProcessed)
                         ELSE 0,
     maxConcurrent |-> s.maxConcurrent]

\* getStats()
GetStats(s) ==
    [activeRequests |-> s.activeRequests,
     queuedRequests |-> Len(s.queue),
     totalProcessed |-> s.totalProcessed,
     averageWaitTime |-> IF s.totalProcessed > 0
                         THEN MathRound(s.totalWaitTime, s.totalProcessed)
                         ELSE 0,
     maxConcurrent |-> s.maxConcurrent]

\* setMaxConcurrent that only stores the limit
SetMaxConcurrentNoProcess(s, max, F) == [s EXCEPT !.maxConcurrent = max]

\* setMaxConcurrent(max)
SetMaxConcurrentHandler(s, max, F) ==
    ProcessQueue([s EXCEPT !.maxConcurrent = max], F)

\* ------------------------------------------------------ chat route handlers
\* the texts of the model that contain 'timeout' or 'timed out'
TimeoutTexts == {"Process killed due to timeout", "Execution timeout"}

\* stderr.includes('timeout') || stderr.includes('timed out')
IncludesTimeout(text) == \E i \in 1 .. Len(text) : text[i] \in TimeoutTexts

\* handleCLIError(exitCode, stderr)
HandleCLIError(text) ==
    IF IncludesTimeout(text)
    THEN [status |-> 504, code |-> "timeout"]
    ELSE [status |-> 500, code |-> "model_error"]

\* handleParseError(error)
HandleParseError == [status |-> 500, code |-> "invalid_response_format"]

\* result.stderr || result.error || 'Unknown error'
ErrorText(r) == IF r.stderr # << >> THEN r.stderr ELSE << r.error >>

\* the response of handleNonStreamingRequest to a settled promise p of
\* executeGeminiCLI; a rejection is caught by chatCompletionHandler
NonStreamingResponse(p) ==
    IF p.state = "rejected"
    THEN HandleParseError
    ELSE IF ~p.value[1].success
    THEN HandleCLIError(ErrorText(p.value[1]))
    ELSE [status |-> 200, code |-> ""]

\* the response of handleStreamingRequest: the status line is sent with the
\* first write, the code is the one of the error chunk
StreamingResponse(p) ==
    IF p.state = "rejected"
    THEN [status |-> 200, code |-> "internal_error"]
    ELSE IF ~p.value[1].success
    THEN [status |-> 200, code |-> "model_error"]
    ELSE [status |-> 200, code |-> ""]

\* what handleStreamingRequest does with the response: res.write of an SSE
\* event `data: ...\n\n`, or res.end()
RoleChunk == [kind |-> "role", content |-> << >>, code |-> ""]
ContentChunk(content) == [kind |-> "content", content |-> content, code |-> ""]
FinalChunk == [kind |-> "final", content |-> << >>, code |-> ""]
DoneMarker == [kind |-> "done", content |-> << >>, code |-> ""]
ErrorChunk(code) == [kind |-> "error", content |-> << >>, code |-> code]
ResEnd == [kind |-> "end", content |-> << >>, code |-> ""]

\* a handler that streams the content character by character
HandleStreamingRequestByChar(p) ==
    IF p.state = "rejected"
    THEN << ErrorChunk("internal_error"), ResEnd >>
    ELSE IF ~p.value[1].success
    THEN << ErrorChunk("model_error"), ResEnd >>
    ELSE << RoleChunk >>
             \o [i \in 1 .. Len(p.value[1].content) |->
                    ContentChunk(<< p.value[1].content[i] >>)]
             \o << FinalChunk, DoneMarker, ResEnd >>

\* handleStreamingRequest from the end of `await executeGeminiCLI(...)` on
\* the settled promise p: the calls of res.write and res.end, in order
HandleStreamingRequest(p) ==
    IF p.state = "rejected"
    THEN << ErrorChunk("internal_error"), ResEnd >>
    ELSE IF ~p.value[1].success
    THEN << ErrorChunk("model_error"), ResEnd >>
    ELSE LET content == p.value[1].content
         IN  << RoleChunk >>
                 \o (IF content # << >> THEN << ContentChunk(content) >>
                     ELSE << >>)
                 \o << FinalChunk, DoneMarker, ResEnd >>

\* ---------------------------------------------------- middleware pipeline
\* the answer to request req, given by stage
Respond(s, req, stage, status, code) ==
    [s EXCEPT !.lastHttp = [req |-> << req >>, stage |-> stage,
                            status |-> status, code |-> code, call |-> 0],
              !.httpCount = @ + 1]

\* messages.slice(-n)
Slice(messages, n) ==
    IF Len(messages) <= n THEN messages
    ELSE SubSeq(messages, Len(messages) - n + 1, Len(messages))

\* toUpperCase() of a character
ToUpperCase(ch) ==
    CASE ch = "a" -> "A"
      [] ch = "s" -> "S"
      [] ch = "u" -> "U"
      [] ch = "t" -> "T"
      [] OTHER -> ch

\* role.charAt(0).toUpperCase() + role.slice(1)
Capitalize(role) ==
    IF role = << >> THEN << >>
    ELSE << ToUpperCase(Head(role)) >> \o Tail(role)

\* promptParts after the loop: '[Role]', the content and '' per message
RECURSIVE PromptParts(_)
PromptParts(messages) ==
    IF messages = << >> THEN << >>
    ELSE << << "[" >> \o Capitalize(Head(messages).role) \o << "]" >>,
            Head(messages).content.text,
            << >> >>
         \o PromptParts(Tail(messages))

\* parts.join(sep)
RECURSIVE Join(_, _)
Join(parts, sep) ==
    IF parts = << >> THEN << >>
    ELSE IF Len(parts) = 1 THEN parts[1]
    ELSE parts[1] \o sep \o Join(Tail(parts), sep)

\* a prompt built from the first MAX_MESSAGES messages
BuildPromptFirst(messages) ==
    Trim(Join(PromptParts(IF Len(messages) <= MAX_MESSAGES THEN messages
                          ELSE SubSeq(messages, 1, MAX_MESSAGES)),
              << "\n" >>))

\* buildPrompt
BuildPrompt(messages) ==
    Trim(Join(PromptParts(Slice(messages, MAX_MESSAGES)), << "\n" >>))

\* the request enters a stage of createApp
Enter(s, stage) == [s EXCEPT !.stages = Append(@, stage)]

\* !msg.content
Falsy(content) ==
    content.type = "undefined" \/ (content.type = "string" /\ content.text = << >>)

\* the checks of validateMessages on one message, '' when it passes
MessageError(msg) ==
    IF msg.role = << >> \/ Falsy(msg.content)
    THEN "missing required fields (role, content)"
    ELSE IF msg.role \notin ValidRoles
    THEN "has invalid role"
    ELSE IF msg.content.type # "string"
    THEN "content must be a string"
    ELSE ""

\* a validation that looks at the first message only
ValidateMessagesFirstOnly(messages) ==
    IF messages.kind # "array"
    THEN [valid |-> FALSE, error |-> "Messages must be an array", index |-> 0]
    ELSE IF Len(messages.list) = 0
    THEN [valid |-> FALSE, error |-> "Messages array cannot be empty", index |-> 0]
    ELSE IF MessageError(messages.list[1]) # ""
    THEN [valid |-> FALSE, error |-> MessageError(messages.list[1]), index |-> 0]
    ELSE [valid |-> TRUE, error |-> "", index |-> 0]

\* validateMessages: the error of the first message that fails a check;
\* index counts from 0
ValidateMessages(messages) ==
    IF messages.kind # "array"
    THEN [valid |-> FALSE, error |-> "Messages must be an array", index |-> 0]
    ELSE IF Len(messages.list) = 0
    THEN [valid |-> FALSE, error |-> "Messages array cannot be empty", index |-> 0]
    ELSE IF \E i \in 1 .. Len(messages.list) : MessageError(messages.list[i]) # ""
    THEN LET i == CHOOSE k \in 1 .. Len(messages.list) :
                      /\ MessageError(messages.list[k]) # ""
                      /\ \A j \in 1 .. (k - 1) : MessageError(messages.list[j]) = ""
         IN  [valid |-> FALSE, error |-> MessageError(messages.list[i]),
              index |-> i - 1]
    ELSE [valid |-> TRUE, error |-> "", index |-> 0]

\* chatCompletionHandler: validation, then executeGeminiCLI with the
\* request id of requestLoggerMiddleware; the answer follows the execution
ChatCompletionHandler(s, req, F) ==
    IF req.body.model = ""
    THEN Respond(s, req, "chat", 400, "invalid_request_error")
    ELSE IF req.body.messages.kind # "array"
    THEN Respond(s, req, "chat", 400, "invalid_request_error")
    ELSE IF ~ValidateMessages(req.body.messages).valid
    THEN Respond(s, req, "chat", 400, "invalid_request_error")
    ELSE ExecuteHandler(
             [s EXCEPT !.lastHttp = [req |-> << req >>, stage |-> "chat",
                                     status |-> 0, code |-> "",
                                     call |-> s.nextCall + 1],
                       !.httpCount = @ + 1],
             s.nextCall + 1, s.nextCall + 1, F)

\* the routers, the health route and the 404 handler, in mounting order
Router(s0, req, F) ==
    LET s == Enter(s0, "route") IN
    IF req.method = "GET" /\ req.path = "/v1/models"
    THEN Respond(s, req, "models", 200, "")
    ELSE IF req.method = "POST"
            /\ req.path \in {"/v1/chat/completions", "/chat/completions"}
    THEN ChatCompletionHandler(s, req, F)
    ELSE IF req.method = "GET" /\ req.path = "/health"
    THEN Respond(s, req, "health", 200, "")
    ELSE Respond(s, req, "notFound", 404, "not_found")

\* authHeader.split(' ')
RECURSIVE Split(_)
Split(h) ==
    IF \E i \in 1 .. Len(h) : h[i] = " "
    THEN LET i == CHOOSE k \in 1 .. Len(h) :
                      h[k] = " " /\ \A j \in 1 .. (k - 1) : h[j] # " "
         IN  << SubSeq(h, 1, i - 1) >> \o Split(SubSeq(h, i + 1, Len(h)))
    ELSE << h >>

\* the UTF-8 bytes of a character
Utf8(ch) == IF ch = "a" THEN << 97 >> ELSE IF ch = "b" THEN << 98 >> ELSE << 63 >>

\* Buffer.from(token, 'utf-8')
RECURSIVE BufferFrom(_)
BufferFrom(token) ==
    IF token = << >> THEN << >>
    ELSE Utf8(Head(token)) \o BufferFrom(Tail(token))

\* a comparison of the lengths only
TokenValidLengthOnly(token) ==
    Len(BufferFrom(token)) = Len(BufferFrom(BearerToken))

\* tokenBuffer.length === expectedBuffer.length && timingSafeEqual(...)
TokenValid(token) ==
    /\ Len(BufferFrom(token)) = Len(BufferFrom(BearerToken))
    /\ BufferFrom(token) = BufferFrom(BearerToken)

\* authMiddleware
AuthMiddleware(s0, req, F) ==
    LET s == Enter(s0, "auth") IN
    IF req.auth = NoHeader
    THEN Respond(s, req, "auth", 401, "authentication_error")
    ELSE LET parts == Split(req.auth)
         IN  IF Len(parts) # 2 \/ parts[1] # << "Bearer" >>
             THEN Respond(s, req, "auth", 401, "authentication_error")
             ELSE IF ~TokenValid(parts[2])
             THEN Respond(s, req, "auth", 401, "authentication_error")
             ELSE Router(s, req, F)

\* getClientIP: the first address of X-Forwarded-For, else req.ip
GetClientIP(req) == IF req.forwarded # << >> THEN Head(req.forwarded) ELSE req.ip

\* logs.filter(log => now - log.timestamp < windowMs)
RECURSIVE FilterValid(_, _, _)
FilterValid(logs, t, windowMs) ==
    IF logs = << >> THEN << >>
    ELSE IF t - Head(logs) < windowMs
    THEN << Head(logs) >> \o FilterValid(Tail(logs), t, windowMs)
    ELSE FilterValid(Tail(logs), t, windowMs)

\* cleanupOldLogs(ip, windowMs)
CleanupOldLogs(s, ip, windowMs) ==
    [s EXCEPT !.requestLogs[ip] = FilterValid(@, s.now, windowMs)]

\* a limiter that lets a request through when maxRequests are in the window
RateLimitMiddlewareOffByOne(s, req, F) ==
    LET ip == GetClientIP(req)
        s1 == CleanupOldLogs(Enter(s, "rateLimit"), ip, RateWindowTicks)
    IN  IF Len(s1.requestLogs[ip]) > RateMaxRequests
        THEN Respond(s1, req, "rateLimit", 429, "rate_limit_exceeded")
        ELSE AuthMiddleware(
                 [s1 EXCEPT !.requestLogs[ip] = Append(@, s.now),
                            !.passed[ip] = Append(@, s.now)],
                 req, F)

\* a limiter that also records the requests it rejects
RateLimitMiddlewareLogsRejected(s, req, F) ==
    LET ip == GetClientIP(req)
        s1 == CleanupOldLogs(Enter(s, "rateLimit"), ip, RateWindowTicks)
    IN  IF Len(s1.requestLogs[ip]) >= RateMaxRequests
        THEN Respond([s1 EXCEPT !.requestLogs[ip] = Append(@, s.now)],
                     req, "rateLimit", 429, "rate_limit_exceeded")
        ELSE AuthMiddleware(
                 [s1 EXCEPT !.requestLogs[ip] = Append(@, s.now),
                            !.passed[ip] = Append(@, s.now)],
                 req, F)

\* a limiter that records only the requests that authentication accepts
RateLimitMiddlewareCountsAuthenticated(s, req, F) ==
    LET ip == GetClientIP(req)
        s1 == CleanupOldLogs(Enter(s, "rateLimit"), ip, RateWindowTicks)
        s2 == AuthMiddleware(s1, req, F)
    IN  IF Len(s1.requestLogs[ip]) >= RateMaxRequests
        THEN Respond(s1, req, "rateLimit", 429, "rate_limit_exceeded")
        ELSE IF s2.lastHttp.stage = "auth"
        THEN s2
        ELSE [s2 EXCEPT !.requestLogs[ip] = Append(@, s.now),
                        !.passed[ip] = Append(@, s.now)]

\* rateLimitMiddleware
RateLimitMiddleware(s, req, F) ==
    LET ip == GetClientIP(req)
        s1 == CleanupOldLogs(Enter(s, "rateLimit"), ip, RateWindowTicks)
    IN  IF Len(s1.requestLogs[ip]) >= RateMaxRequests
        THEN Respond(s1, req, "rateLimit", 429, "rate_limit_exceeded")
        ELSE AuthMiddleware(
                 [s1 EXCEPT !.requestLogs[ip] = Append(@, s.now),
                            !.passed[ip] = Append(@, s.now)],
                 req, F)

\* requestLoggerMiddleware attaches the context and calls next(); the rate
\* limiter is the next stage
RequestLoggerMiddleware(s, req, F) ==
    RateLimitMiddleware(Enter(s, "requestLogger"), req, F)

\* express.json(): a body that does not parse is an error, which the global
\* error handler answers; the debugging middleware only prints
BodyParser(s0, req, F) ==
    LET s == Enter(s0, "bodyParser") IN
    IF req.method = "POST" /\ ~req.body.json
    THEN Respond(s, req, "bodyParser", 500, "internal_error")
    ELSE RequestLoggerMiddleware(s, req, F)

\* corsMiddleware: an Origin that is not allowed is an error, which the
\* global error handler answers; then the stages of createApp in order
Pipeline(s0, req, F) ==
    LET s == [s0 EXCEPT !.stages = << "cors" >>] IN
    IF req.origin = "other"
    THEN Respond(s, req, "cors", 500, "internal_error")
    ELSE BodyParser(s, req, F)

\* ----------------------------------------------------------------- actions
\* the calls whose operation can be invoked when a slot is released
Waiting == {queue[i].call : i \in 1 .. Len(queue)}

\* the sets of calls for which existsSync/mkdirSync throws, among the calls S
\* that can start; mk = FALSE: a filesystem on which mkdirSync succeeds
MkdirFailures(mk, S) == IF mk THEN SUBSET S ELSE {{}}

\* the state after construction with queue timeout qt
InitQ(qt) ==
    /\ activeRequests = 0
    /\ queue = << >>
    /\ maxConcurrent \in 1 .. MaxK
    /\ totalProcessed = 0
    /\ totalWaitTime = 0
    /\ queueTimeout = qt
    /\ now = 0
    /\ nextCall = 0
    /\ requestId = [c \in Calls |-> 0]
    /\ promise = [c \in Calls |-> NoPromise]
    /\ opPromise = [c \in Calls |-> NoPromise]
    /\ timers = << >>
    /\ proc = [c \in Calls |-> "none"]
    /\ killed = [c \in Calls |-> FALSE]
    /\ timeout = [c \in Calls |-> "none"]
    /\ stdout = [c \in Calls |-> << >>]
    /\ stderr = [c \in Calls |-> << >>]
    /\ exit = [c \in Calls |-> NoExit]
    /\ dirs = {}
    /\ cleanupWarnings = {}
    /\ spawns = [c \in Calls |-> 0]
    /\ events = [c \in Calls |-> << >>]
    /\ releases = [c \in Calls |-> 0]
    /\ started = << >>
    /\ calledAt = [c \in Calls |-> -1]
    /\ admittedAt = [c \in Calls |-> -1]
    /\ completedAt = [c \in Calls |-> -1]
    /\ requestLogs = [ip \in IPs |-> << >>]
    /\ passed = [ip \in IPs |-> << >>]
    /\ lastHttp = NoHttp
    /\ httpCount = 0
    /\ stages = << >>
    /\ lastPrompt = [messages |-> << >>, text |-> << >>]

\* timers that can fire at any moment after they were set
Init == InitQ(0)

\* a queue timeout of QueueTimeoutTicks units of time
InitTimed == InitQ(QueueTimeoutTicks)

\* time passes between two macrotasks
Tick(maxNow) ==
    /\ now < maxNow
    /\ Apply([cur EXCEPT !.now = @ + 1])

\* executeGeminiCLI(prompt, model, requestId) with the fresh uuid that
\* requestLoggerMiddleware gives to every request; at most n calls
Execute(n, mk) ==
    /\ nextCall < n
    /\ \E F \in MkdirFailures(mk, {nextCall + 1} \cup Waiting) :
          Apply(RunMicrotasks(
              ExecuteHandler(cur, nextCall + 1, nextCall + 1, F), F))

\* cliQueue.execute(requestId, operation) with a request id chosen by the
\* caller, the operation being an invocation of the CLI; at most n calls
ExecuteWithId(n, ids) ==
    /\ nextCall < n
    /\ \E id \in ids :
          Apply(RunMicrotasks(ExecuteHandler(cur, nextCall + 1, id, {}), {}))

\* the oldest queue timer fires (equal delays fire in creation order)
QueueTimeoutFires ==
    /\ timers # << >>
    /\ now >= Head(timers).due
    /\ Apply(RunMicrotasks(
          QueueTimerHandler([cur EXCEPT !.timers = Tail(@)], Head(timers)),
          {}))

SetMaxConcurrent(mk) ==
    \E max \in 1 .. MaxK, F \in MkdirFailures(mk, Waiting) :
        /\ max # maxConcurrent
        /\ Apply(RunMicrotasks(SetMaxConcurrentHandler(cur, max, F), F))

\* spawnedProcess.stdout.on('data', ...): a chunk of one character
StdoutData(chars, maxLen) ==
    \E c \in Calls, ch \in chars :
        /\ proc[c] = "running"
        /\ Len(stdout[c]) < maxLen
        /\ Apply([cur EXCEPT !.stdout[c] = Append(@, ch)])

\* spawnedProcess.stderr.on('data', ...)
StderrData(chars, maxLen) ==
    \E c \in Calls, ch \in chars :
        /\ proc[c] = "running"
        /\ Len(stderr[c]) < maxLen
        /\ Apply([cur EXCEPT !.stderr[c] = Append(@, ch)])

ExecutionTimeout(mk) ==
    \E c \in Calls, F \in MkdirFailures(mk, Waiting) :
        /\ timeout[c] = "pending"
        /\ Apply(RunMicrotasks(TimeoutHandler(cur, c), F))

ProcessClose(evs, rmOks, mk) ==
    \E c \in Calls, ev \in evs, rmOk \in rmOks,
       F \in MkdirFailures(mk, Waiting) :
        /\ proc[c] = "running"
        /\ Apply(RunMicrotasks(CloseHandler(cur, c, ev, rmOk), F))

ProcessError(mk) ==
    \E c \in Calls, F \in MkdirFailures(mk, Waiting) :
        /\ proc[c] = "running"
        /\ events[c] = << >>
        /\ Apply(RunMicrotasks(ErrorHandler(cur, c), F))

\* the server as it runs: MaxCalls calls compete for the slots of a limit
\* that stays as constructed; their processes end in every way (exit code,
\* signal, spawn error, timeout) but write nothing; mkdirSync and rmSync
\* succeed
NextFixed ==
    \/ Execute(MaxCalls, FALSE)
    \/ QueueTimeoutFires
    \/ ExecutionTimeout(FALSE)
    \/ ProcessClose(CloseEvents, {TRUE}, FALSE)
    \/ ProcessError(FALSE)

\* the queue manager under all its operations: as above, with
\* setMaxConcurrent calls and with operations that reject (mkdirSync throws)
Next ==
    \/ Execute(MaxCalls, TRUE)
    \/ QueueTimeoutFires
    \/ SetMaxConcurrent(TRUE)
    \/ ExecutionTimeout(TRUE)
    \/ ProcessClose(CloseEvents, {TRUE}, TRUE)
    \/ ProcessError(TRUE)

\* one invocation in detail: ExecCalls calls, too few to wait for a slot,
\* whose processes write on both streams; mkdirSync and rmSync can throw
NextExec ==
    \/ Execute(ExecCalls, TRUE)
    \/ StdoutData(StdoutChars, MaxStdoutLen)
    \/ StderrData(StderrChars, MaxStderrLen)
    \/ ExecutionTimeout(TRUE)
    \/ ProcessClose(CloseEvents, BOOLEAN, TRUE)
    \/ ProcessError(TRUE)

\* an executor that always fails with the transient-conflict signature:
\* every process writes the conflict message and exits with code 125
NextConflict ==
    \/ Execute(MaxCalls, FALSE)
    \/ QueueTimeoutFires
    \/ StderrData(ConflictStderr, MaxStderrLen)
    \/ ProcessClose(ConflictEvents, {TRUE}, FALSE)

\* the queue manager with a clock: calls arrive, wait and complete at
\* different times; a queue timer fires once queueTimeout has passed
NextTimed ==
    \/ Tick(MaxNow)
    \/ Execute(MaxCalls, TRUE)
    \/ QueueTimeoutFires
    \/ ProcessClose(OkEvents, {TRUE}, TRUE)

\* the requests of the authentication scenario: one client, every route,
\* every Authorization header
AuthRequests ==
    [ip : {"ip1"}, forwarded : {<< >>}, origin : {"none"},
     method : {"GET", "POST"},
     path : {"/health", "/v1/models", "/v1/chat/completions",
             "/chat/completions", "/other"},
     auth : AuthHeaders, body : {ValidBody}]

\* the requests of the rate limit scenario: two clients, directly or
\* through a proxy, with and without a token
RateRequests ==
    [ip : IPs, forwarded : {<< >>, << "ip2", "ip1" >>}, origin : {"none"},
     method : {"GET"}, path : {"/v1/models"},
     auth : {NoHeader, ValidAuth}, body : {ValidBody}]

\* one HTTP request runs through the pipeline; a chat request that is let
\* through makes the next execute call (at most n of them)
HttpRequest(reqs, maxHttp, n) ==
    /\ httpCount < maxHttp
    /\ nextCall < n
    /\ \E req \in reqs :
          LET s1 == RunMicrotasks(Pipeline(cur, req, {}), {})
          IN  /\ s1.nextCall <= n
              /\ Apply(s1)

\* the server under HTTP requests of every kind; executions succeed
NextHttp ==
    \/ HttpRequest(AuthRequests, MaxHttp, MaxCalls)
    \/ ProcessClose(OkEvents, {TRUE}, FALSE)

\* requests that each stage of createApp accepts or rejects: origins that
\* CORS allows or not, bodies that parse or not, with and without a token
StageRequests ==
    [ip : IPs, forwarded : {<< >>}, origin : {"none", "other"},
     method : {"GET", "POST"}, path : {"/v1/models", "/v1/chat/completions"},
     auth : {NoHeader, ValidAuth}, body : {ValidBody, MalformedBody}]

\* the server under requests that stop at every stage; executions succeed
NextStages ==
    \/ HttpRequest(StageRequests, MaxHttp, MaxCalls)
    \/ ProcessClose(OkEvents, {TRUE}, FALSE)

\* the callback of setInterval in rate_limit.ts: the expired entries of
\* every IP are dropped
CleanupInterval ==
    Apply([cur EXCEPT !.requestLogs =
               [ip \in IPs |-> FilterValid(@[ip], now, RateWindowTicks)]])

\* chat requests with the token and every body
ChatRequests ==
    [ip : IPs, forwarded : {<< >>}, origin : {"none"}, method : {"POST"},
     path : {"/v1/chat/completions"}, auth : {ValidAuth}, body : Bodies]

\* the server under chat requests with valid and invalid bodies; executions
\* succeed
NextChat ==
    \/ HttpRequest(ChatRequests, MaxHttp, MaxCalls)
    \/ ProcessClose(OkEvents, {TRUE}, FALSE)

\* buildPrompt(messages) is called for a conversation that continues: the
\* messages of the call before and one more
BuildPromptCall ==
    \E msg \in PromptMessages :
        LET messages == Append(lastPrompt.messages, msg)
        IN  /\ IsConversation(messages)
            /\ Apply([cur EXCEPT !.lastPrompt =
                          [messages |-> messages,
                           text |-> BuildPrompt(messages)]])

\* the prompt builder under conversations of every length
NextPrompt == BuildPromptCall

\* the rate limiter under requests that arrive at different times
NextRate ==
    \/ Tick(MaxNow)
    \/ CleanupInterval
    \/ HttpRequest(RateRequests, MaxHttp, MaxCalls)

\* the queue manager with a clock under calls whose request ids repeat
NextIds ==
    \/ Tick(MaxNow)
    \/ ExecuteWithId(MaxCalls, RequestIds)
    \/ QueueTimeoutFires
    \/ ProcessClose(OkEvents, {TRUE}, FALSE)

SpecIds == InitTimed /\ [][NextIds]_vars

\* the same calls where a queue timer can fire at any moment after it was
\* set
NextIdsUntimed ==
    \/ ExecuteWithId(MaxCalls, RequestIds)
    \/ QueueTimeoutFires
    \/ ProcessClose(OkEvents, {TRUE}, FALSE)

\* every pending timer fires and every running process ends
SpecIdsFair ==
    /\ Init /\ [][NextIdsUntimed]_vars
    /\ WF_vars(QueueTimeoutFires)
    /\ WF_vars(ProcessClose(OkEvents, {TRUE}, FALSE))

\* the life of the scratch directories: ExecCalls invocations that end in
\* every way (success, non-zero exit, empty output, timeout with kill, spawn
\* error) on a filesystem where rmSync can throw
NextDirs ==
    \/ Execute(ExecCalls, FALSE)
    \/ StdoutData(StdoutChars, 1)
    \/ StderrData(StderrChars, MaxStderrLen)
    \/ ExecutionTimeout(FALSE)
    \/ ProcessClose(CloseEvents, BOOLEAN, FALSE)
    \/ ProcessError(FALSE)

\* the close event of some running process occurs: what a ProcessClose step
\* does to proc, and no other step does
CloseEventOccurs ==
    \E c \in Calls :
        /\ proc[c] = "running"
        /\ proc' = [proc EXCEPT ![c] = "closed"]

\* every spawned process eventually emits its close event
SpecDirsFair ==
    /\ Init /\ [][NextDirs]_vars
    /\ WF_proc(CloseEventOccurs)

Spec == Init /\ [][Next]_vars

SpecHttp == Init /\ [][NextHttp]_vars

SpecStages == Init /\ [][NextStages]_vars

SpecChat == Init /\ [][NextChat]_vars

SpecPrompt == Init /\ [][NextPrompt]_vars

SpecRate == Init /\ [][NextRate]_vars

SpecTimed == InitTimed /\ [][NextTimed]_vars

SpecConflict == Init /\ [][NextConflict]_vars

SpecFixed == Init /\ [][NextFixed]_vars

SpecExec == Init /\ [][NextExec]_vars

\* -------------------------------------------------------------- properties
\* the operations in flight: the callback was started and the promise it
\* returned has not settled
InFlight == {c \in Calls : opPromise[c].state = "pending"}

\* the calls whose operation was invoked
Started == {started[i] : i \in 1 .. Len(started)}

\* C1 as stated: 0 <= activeRequests <= maxConcurrent in every reachable
\* state, setMaxConcurrent calls included.
C1_ActiveWithinLimit ==
    0 <= activeRequests /\ activeRequests <= maxConcurrent

\* C1 (amended): activeRequests is never negative; no step other than a
\* setMaxConcurrent call that lowers the limit takes the engine from
\* activeRequests <= maxConcurrent to activeRequests > maxConcurrent; and
\* while activeRequests exceeds maxConcurrent it never grows.
C1_ActiveWithinLimitUnlessLowered ==
    /\ [](0 <= activeRequests)
    /\ [][ (activeRequests <= maxConcurrent /\ maxConcurrent' >= maxConcurrent)
              => activeRequests' <= maxConcurrent' ]_vars
    /\ [][ activeRequests' > maxConcurrent'
              => activeRequests' <= activeRequests ]_vars

\* setMaxConcurrent lowered the limit under two running operations while a
\* third call waits
C1_Witness ==
    /\ activeRequests = 2
    /\ maxConcurrent = 1
    /\ Len(queue) > 0

\* C2: with maxConcurrent fixed at K, at most K operations are in flight,
\* however many execute calls are submitted.
C2_InFlightBounded == Cardinality(InFlight) <= maxConcurrent

\* more calls than slots: K operations are in flight and a call waits
C2_Witness ==
    /\ nextCall > maxConcurrent
    /\ Cardinality(InFlight) = maxConcurrent
    /\ Len(queue) > 0

\* C3: the finally block of an admitted operation runs exactly once, when
\* the operation settles (resolved, rejected or timed out), never before
\* and never again; so activeRequests counts the operations in flight and is
\* 0 when there is none.
C3_OneReleasePerAdmission ==
    /\ \A c \in Calls :
          releases[c] = IF Settled(opPromise[c]) THEN 1 ELSE 0
    /\ activeRequests = Cardinality(InFlight)
    /\ (InFlight = {} => activeRequests = 0)

\* one operation ended by the execution timeout and its close event came
\* afterwards, another one rejected, and nothing is in flight
C3_Witness ==
    /\ \E c \in Calls : events[c] = << "timeout", "close" >> /\ releases[c] = 1
    /\ \E c \in Calls : opPromise[c].state = "rejected" /\ releases[c] = 1
    /\ InFlight = {}
    /\ activeRequests = 0

\* the operation of call c is invoked by this step
AdmittedInStep(c) == opPromise[c].state = "none" /\ opPromise'[c].state # "none"

\* the position of call c in the sequence of invoked operations q
StartPos(q, c) == CHOOSE k \in 1 .. Len(q) : q[k] = c

\* C4: admission is first-in-first-out among waiters.  The queue holds the
\* waiters in the order of their execute calls; no call made after a waiter
\* has started while that waiter is still in the queue; and a step that
\* admits a waiter admits every waiter ahead of it, each before it.
C4_FifoAdmission ==
    /\ [](\A i, j \in 1 .. Len(queue) :
              i < j => queue[i].call < queue[j].call)
    /\ [](\A i \in 1 .. Len(queue) : \A b \in Started : b < queue[i].call)
    /\ [][ \A i, j \in 1 .. Len(queue) :
              (i < j /\ AdmittedInStep(queue[j].call))
                  => /\ AdmittedInStep(queue[i].call)
                     /\ StartPos(started', queue[i].call)
                            < StartPos(started', queue[j].call) ]_vars

\* two calls waited in the queue at the same time and both were admitted:
\* their timers are still pending and their operations have started
C4_Witness ==
    /\ Len(timers) = 2
    /\ timers[1].call \in Started
    /\ timers[2].call \in Started
    /\ StartPos(started, timers[1].call) < StartPos(started, timers[2].call)

\* C5: a call fails with the queue-timeout error only if its operation was
\* never invoked and no process was spawned for it; and when the queue timer
\* of a call that still waits fires, the call leaves the queue and fails with
\* that error without having been started.
C5_QueueTimeout ==
    /\ [](\A c \in Calls :
              promise[c] = Rejected("Request timeout")
                  => /\ opPromise[c].state = "none"
                     /\ proc[c] = "none"
                     /\ c \notin Started
                     /\ c \notin Waiting)
    /\ [][ (timers # << >> /\ timers' = Tail(timers)
                /\ Head(timers).call \in Waiting)
              => /\ Head(timers).call \notin Waiting'
                 /\ promise'[Head(timers).call] = Rejected("Request timeout")
                 /\ opPromise'[Head(timers).call].state = "none" ]_vars

\* one call failed by queue timeout while the call that held the slot ran,
\* and the timer of an admitted call fired without effect
C5_Witness ==
    /\ \E c \in Calls : promise[c] = Rejected("Request timeout")
    /\ \E c \in Calls :
          /\ c \in Started
          /\ promise[c].state = "fulfilled"
          /\ c > 1
          /\ timers = << >>

\* C6 as stated: the promise of executeGeminiCLI never rejects; every
\* failure is a fulfilled result with success = FALSE.
C6_NeverRejects == \A c \in Calls : promise[c].state # "rejected"

\* C7 as stated: once the promise of an invocation has settled, its scratch
\* directory gemini-bridge-<requestId> does not exist.
C7_DirGoneAtDelivery ==
    \A c \in Calls : Settled(promise[c]) => requestId[c] \notin dirs

\* the handlers of process c that ran
Happened(c) == {events[c][i] : i \in 1 .. Len(events[c])}

\* C8: if the execution timer fires, it fires before the close event and
\* before any spawn error, the process is killed and the result is the
\* timeout failure; if the close event or a spawn error comes first, the
\* timer is cancelled and stays so: no kill and no timeout result follow.
C8_TimeoutVersusExit ==
    \A c \in Calls :
        /\ "timeout" \in Happened(c)
              => /\ events[c][1] = "timeout"
                 /\ timeout[c] = "fired"
                 /\ killed[c]
                 /\ opPromise[c] = Fulfilled(TimeoutResult)
                 /\ promise[c] = Fulfilled(TimeoutResult)
        /\ (events[c] # << >> /\ events[c][1] \in {"close", "error"})
              => /\ timeout[c] = "cleared"
                 /\ "timeout" \notin Happened(c)
                 /\ ~killed[c]
                 /\ opPromise[c] # Fulfilled(TimeoutResult)
                 /\ promise[c] # Fulfilled(TimeoutResult)

\* the timer fired, the process was killed and closed by the signal
C8_Witness ==
    \E c \in Calls :
        /\ events[c] = << "timeout", "close" >>
        /\ killed[c]
        /\ exit[c].signal = "SIGTERM"
        /\ promise[c] = Fulfilled(TimeoutResult)

\* C9: an invocation whose process had an event has exactly one result, the
\* one of the first event of its process; a settled promise never changes,
\* whatever events follow.
C9_OneResult ==
    /\ [](\A c \in Calls :
              events[c] # << >>
                  => /\ promise[c].state = "fulfilled"
                     /\ opPromise[c] = promise[c]
                     /\ Len(promise[c].value) = 1
                     /\ events[c][1] = "timeout"
                           => promise[c].value[1] = TimeoutResult
                     /\ events[c][1] = "error"
                           => promise[c].value[1].error = "spawn error"
                     /\ events[c][1] = "close"
                           => promise[c].value[1].error \in
                                 {"", "CLI exited with code",
                                  "Empty response from CLI"})
    /\ [][ \A c \in Calls :
              Settled(promise[c])
                  => /\ promise'[c] = promise[c]
                     /\ opPromise'[c] = opPromise[c] ]_vars

\* after the timeout result the process closed with exit code 0, which
\* alone would have given another result
C9_Witness ==
    \E c \in Calls :
        /\ events[c] = << "timeout", "close" >>
        /\ exit[c] = [code |-> 0, signal |-> ""]
        /\ promise[c] = Fulfilled(TimeoutResult)

\* n characters of whitespace
Spaces(n) == [i \in 1 .. n |-> " "]

\* t is s without its leading and trailing whitespace
IsTrimOf(t, s) ==
    /\ \E i, j \in 0 .. Len(s) : s = Spaces(i) \o t \o Spaces(j)
    /\ t # << >> => (~IsSpace(t[1]) /\ ~IsSpace(t[Len(t)]))

\* C10: when the close event is the first event of the process, the result
\* is a success exactly if the exit code is 0 and stdout has a character
\* that is not whitespace, and its content is then stdout without leading
\* and trailing whitespace; exit code 0 with nothing but whitespace gives the
\* empty-output failure with exitCode 0; any other exit gives a failure that
\* carries the captured stderr.
C10_CloseResult ==
    [][ \A c \in Calls :
          (events[c] = << >> /\ events'[c] = << "close" >>)
              => LET ev == exit'[c]
                     r == promise'[c].value[1]
                     clean == ev.signal = "" /\ ev.code = 0
                 IN  /\ promise'[c].state = "fulfilled"
                     /\ r.success <=> (clean /\ ~IsTrimOf(<< >>, stdout[c]))
                     /\ r.success
                           => /\ IsTrimOf(r.content, stdout[c])
                              /\ r.exitCode = 0
                     /\ (clean /\ IsTrimOf(<< >>, stdout[c]))
                           => /\ r.error = "Empty response from CLI"
                              /\ r.exitCode = 0
                     /\ ~clean
                           => /\ r.error = "CLI exited with code"
                              /\ r.exitCode # 0
                              /\ r.stderr = stderr[c] ]_vars

\* a process that wrote on both streams and exited with code 0
C10_Witness ==
    \E c \in Calls :
        /\ events[c] = << "close" >>
        /\ promise[c].state = "fulfilled"
        /\ promise[c].value[1].success
        /\ promise[c].value[1].content = << "a" >>
        /\ promise[c].value[1].stderr = << "e" >>

\* the result carries the transient-conflict signature
IsTransientConflict(r) ==
    /\ ~r.success
    /\ r.exitCode = ConflictExitCode
    /\ \E i \in 1 .. Len(r.stderr) : r.stderr[i] \in ConflictStderr

\* C11 as stated: a transient-conflict failure reaches the caller only after
\* 1 + maxRetries spawn attempts of the invocation.
C11_RetryBound ==
    \A c \in Calls :
        (promise[c].state = "fulfilled"
             /\ IsTransientConflict(promise[c].value[1]))
            => spawns[c] = 1 + MaxRetries

\* the failures that end an invocation without a retry
TerminalErrors ==
    {"Execution timeout", "Empty response from CLI", "CLI exited with code",
     "spawn error"}

\* C12: an invocation that ends with an execution timeout, empty output, a
\* non-zero exit or a spawn failure has spawned exactly one process, and the
\* failure is with the caller in the step of the first event of that process;
\* no process is spawned for it afterwards.
C12_TerminalFailures ==
    /\ [](\A c \in Calls :
              events[c] # << >>
                  => /\ spawns[c] = 1
                     /\ promise[c].state = "fulfilled"
                     /\ ~promise[c].value[1].success
                           => promise[c].value[1].error \in TerminalErrors)
    /\ [](\A c \in Calls :
              (promise[c].state = "fulfilled" /\ ~promise[c].value[1].success)
                  => spawns[c] = 1)
    /\ [][ \A c \in Calls :
              events[c] # << >> => spawns'[c] = spawns[c] ]_vars

\* a spawn failure was returned and the close event followed it
C12_Witness ==
    \E c \in Calls :
        /\ events[c] = << "error", "close" >>
        /\ spawns[c] = 1
        /\ promise[c].state = "fulfilled"
        /\ promise[c].value[1].error = "spawn error"

\* C13 as stated: a process is spawned no sooner than minGapMs after the
\* completion of the previous execution; with a jitter interval shorter than
\* minGapMs, some time at least passes between that completion and the spawn.
C13_MinGapBeforeSpawn ==
    [][ \A a, b \in Calls :
          (spawns'[b] > spawns[b] /\ a # b /\ spawns'[a] > 0
               /\ completedAt'[a] >= 0)
              => /\ now' - completedAt'[a] >= MinGapMs
                 /\ now' - completedAt'[a] > 0 ]_vars

\* the execute calls made so far
Called == 1 .. nextCall

\* C14 as stated: once every execute call made so far has completed
\* (resolved, rejected or failed by queue timeout), totalProcessed is the
\* number of those calls.
C14_TotalProcessedCountsAll ==
    (\A c \in Called : Settled(promise[c]))
        => GetStats(cur).totalProcessed = nextCall

\* the invocations that were processed: their finally block ran
Processed == {c \in Calls : completedAt[c] >= 0}

\* the time call c spent between its execute call and its admission
QueueWait(c) == admittedAt[c] - calledAt[c]

RECURSIVE SumOfWaits(_)
SumOfWaits(S) ==
    IF S = {} THEN 0
    ELSE LET c == CHOOSE x \in S : TRUE
         IN  QueueWait(c) + SumOfWaits(S \ {c})

\* a is the integer nearest to w / p, the upper one of two equally near
IsRounded(a, w, p) == 2 * a * p <= 2 * w + p /\ 2 * w + p < 2 * (a + 1) * p

\* C15: averageWaitTime is 0 while totalProcessed = 0 and is otherwise
\* totalWaitTime / totalProcessed rounded to the nearest integer; once every
\* call made has completed it is the rounded arithmetic mean of the queue
\* waits of the processed invocations, those admitted at once counting 0.
C15_AverageWaitTime ==
    /\ totalProcessed = 0 => GetStats(cur).averageWaitTime = 0
    /\ totalProcessed > 0
          => IsRounded(GetStats(cur).averageWaitTime,
                       totalWaitTime, totalProcessed)
    /\ (totalProcessed > 0 /\ \A c \in Called : Settled(promise[c]))
          => /\ Processed # {}
             /\ IsRounded(GetStats(cur).averageWaitTime,
                          SumOfWaits(Processed), Cardinality(Processed))

\* two invocations were processed, one admitted at once and one after a
\* wait of one unit: the mean 1/2 is reported as 1
C15_Witness ==
    /\ nextCall >= 2
    /\ \A c \in Called : Settled(promise[c])
    /\ Cardinality(Processed) = 2
    /\ SumOfWaits(Processed) = 1
    /\ GetStats(cur).averageWaitTime = 1

\* the invocations that are alive: process spawned and not yet closed
Alive == {c \in Calls : proc[c] = "running"}

\* C16: two invocations that are alive at the same time have different
\* scratch directories; the directory of a live invocation exists; and no
\* step that leaves an invocation alive removes its directory.
C16_WorkDirNotShared ==
    /\ [](\A a, b \in Alive : a # b => WorkDir(cur, a) # WorkDir(cur, b))
    /\ [](\A a \in Alive : WorkDir(cur, a) \in dirs)
    /\ [][ \A a \in Alive : proc'[a] = "running" => WorkDir(cur, a) \in dirs' ]_vars

\* two invocations are alive, each with its directory, after the close
\* handler of a third one removed the directory of that one
C16_Witness ==
    /\ Cardinality(Alive) = 2
    /\ \A b \in Alive : WorkDir(cur, b) \in dirs
    /\ \E a \in Calls :
          /\ proc[a] = "closed"
          /\ events[a] = << "close" >>
          /\ WorkDir(cur, a) \notin dirs

\* C19 as stated: a request that failed by queue timeout is answered with
\* the timeout classification, code 'timeout' (and status 504 when not
\* streaming), in both modes.
C19_QueueTimeoutIsTimeoutClass ==
    \A c \in Calls :
        promise[c] = Rejected("Request timeout")
            => /\ NonStreamingResponse(promise[c]).code = "timeout"
               /\ NonStreamingResponse(promise[c]).status = 504
               /\ StreamingResponse(promise[c]).code = "timeout"

\* the latest HTTP request
LastReq == lastHttp.req[1]

\* this step handles an HTTP request
HttpStep == httpCount' = httpCount + 1

\* C17 as stated: a GET /health request without a valid Authorization
\* header that the stages before authentication let through is answered by
\* the health handler with status 200, not with 401.
C17_HealthNeedsNoAuth ==
    (/\ httpCount > 0
     /\ LastReq.method = "GET"
     /\ LastReq.path = "/health"
     /\ LastReq.auth # ValidAuth
     /\ lastHttp.stage \notin {"cors", "rateLimit"})
        => /\ lastHttp.stage = "health"
           /\ lastHttp.status = 200

\* the routes that need the bearer token
ProtectedPaths == {"/v1/models", "/v1/chat/completions"}

\* C20 as stated: a request to /v1/models or /v1/chat/completions reaches
\* the handler only with the header 'Bearer <token>'; with any other header
\* it is answered with 401 and no execute call is made.
C20_AuthOr401 ==
    [][ (HttpStep /\ lastHttp'.req[1].path \in ProtectedPaths)
          => /\ lastHttp'.stage \in {"models", "chat"}
                   => lastHttp'.req[1].auth = ValidAuth
             /\ lastHttp'.req[1].auth # ValidAuth
                   => /\ lastHttp'.status = 401
                      /\ nextCall' = nextCall
                      /\ activeRequests' = activeRequests
                      /\ queue' = queue
                      /\ spawns' = spawns ]_vars

\* C20 (amended): such a request reaches the handler only with the header
\* 'Bearer <token>'; with any other header it is answered by the
\* authentication middleware with 401, unless an earlier stage has answered
\* it, and in either case no execute call is made, no slot is taken, nothing
\* is queued and no process is spawned.
C20_AuthOrRejected ==
    [][ (HttpStep /\ lastHttp'.req[1].path \in ProtectedPaths)
          => /\ lastHttp'.stage \in {"models", "chat"}
                   => lastHttp'.req[1].auth = ValidAuth
             /\ lastHttp'.req[1].auth # ValidAuth
                   => /\ lastHttp'.stage \in {"cors", "rateLimit", "auth"}
                      /\ lastHttp'.stage = "auth" => lastHttp'.status = 401
                      /\ lastHttp'.status \in {401, 429, 500}
                      /\ nextCall' = nextCall
                      /\ activeRequests' = activeRequests
                      /\ queue' = queue
                      /\ spawns' = spawns ]_vars

\* a chat request with a wrong token of the right length was answered with
\* 401 while an execution started by an authorized request is running
C20_Witness ==
    /\ httpCount > 1
    /\ LastReq.path = "/v1/chat/completions"
    /\ LastReq.method = "POST"
    /\ LastReq.auth = << "Bearer", " ", "a", "a" >>
    /\ lastHttp.stage = "auth"
    /\ lastHttp.status = 401
    /\ nextCall = 1
    /\ activeRequests = 1

\* the number of requests of ip let through with arrival times in the
\* window (t - windowMs, t]
InWindow(log, t) ==
    Cardinality({i \in 1 .. Len(log) :
                    log[i] > t - RateWindowTicks /\ log[i] <= t})

\* C18: for every IP and every instant the rate limiter let through at most
\* maxRequests requests of that IP with arrival times in the window
\* (t - windowMs, t].
C18_SlidingWindowBound ==
    \A ip \in IPs : \A t \in 0 .. MaxNow :
        InWindow(passed[ip], t) <= RateMaxRequests

\* C18: a request that arrives when its IP has maxRequests accepted requests
\* younger than windowMs is rejected with 429 and is not let through; one
\* that arrives when fewer remain is let through and counted.
C18_RejectsExactlyWhenFull ==
    [][ HttpStep =>
          LET req == lastHttp'.req[1]
              ip == GetClientIP(req)
          IN  IF InWindow(passed[ip], now) >= RateMaxRequests
              THEN /\ lastHttp'.status = 429
                   /\ lastHttp'.stage = "rateLimit"
                   /\ passed' = passed
              ELSE /\ lastHttp'.stage # "rateLimit"
                   /\ lastHttp'.status # 429
                   /\ passed' = [passed EXCEPT ![ip] = Append(@, now)] ]_vars

\* C18: both halves together
C18_RateLimit == [](C18_SlidingWindowBound) /\ C18_RejectsExactlyWhenFull

\* an IP was limited and, once its window had moved on, let through again
C18_Witness ==
    \E ip \in IPs :
        /\ Len(passed[ip]) = RateMaxRequests + 1
        /\ passed[ip][Len(passed[ip])] = now
        /\ httpCount > Len(passed["ip1"]) + Len(passed["ip2"])
        /\ GetClientIP(LastReq) = ip
        /\ lastHttp.stage # "rateLimit"

\* the positions of the events of kind k in the writes w
Positions(w, k) == {i \in 1 .. Len(w) : w[i].kind = k}

\* C21: the events of a streaming response.  After a successful execution:
\* one role chunk first, at most one content chunk, which carries the whole
\* content, one final chunk, then [DONE], then the end of the response and
\* nothing after it.  After a failed execution: exactly one error chunk, then
\* the end, with no content chunk and no [DONE].
C21_SseOrder ==
    \A c \in Calls :
        Settled(promise[c]) =>
            LET w == HandleStreamingRequest(promise[c])
                n == Len(w)
                ok == promise[c].state = "fulfilled" /\ promise[c].value[1].success
            IN  /\ Positions(w, "end") = {n}
                /\ ok => /\ Positions(w, "role") = {1}
                         /\ Positions(w, "final") = {n - 2}
                         /\ Positions(w, "done") = {n - 1}
                         /\ Positions(w, "error") = {}
                         /\ Positions(w, "content") \in {{}, {2}}
                         /\ n = 4 + Cardinality(Positions(w, "content"))
                         /\ \A i \in Positions(w, "content") :
                               w[i].content = promise[c].value[1].content
                         /\ promise[c].value[1].content # << >>
                               => Positions(w, "content") = {2}
                /\ ~ok => /\ n = 2
                          /\ Positions(w, "error") = {1}
                          /\ Positions(w, "content") = {}
                          /\ Positions(w, "done") = {}

\* an execution succeeded with a content of two characters, sent as one chunk
C21_Witness ==
    \E c \in Calls :
        /\ promise[c].state = "fulfilled"
        /\ promise[c].value[1].success
        /\ Len(promise[c].value[1].content) = 2
        /\ Len(HandleStreamingRequest(promise[c])) = 5
        /\ HandleStreamingRequest(promise[c])[2]
               = ContentChunk(promise[c].value[1].content)

\* the codes of the error chunks among the writes w
ErrorCodes(w) == {w[i].code : i \in Positions(w, "error")}

\* C22 as stated: an execution that ended by execution timeout is reported
\* to the HTTP client with the code 'timeout', with status 504 when not
\* streaming and in the error chunk when streaming.
C22_TimeoutCodeInBothModes ==
    \A c \in Calls :
        (promise[c] = Fulfilled(TimeoutResult) /\ "timeout" \in Happened(c))
            => /\ NonStreamingResponse(promise[c])
                      = [status |-> 504, code |-> "timeout"]
               /\ ErrorCodes(HandleStreamingRequest(promise[c])) = {"timeout"}

\* this step is an execute call
ExecuteStep == nextCall' = nextCall + 1

\* C23: with a fixed maxConcurrent, whenever a call waits in the queue every
\* slot is taken (activeRequests = maxConcurrent); and an execute call that
\* arrives while a call waits is not admitted: it joins the queue behind the
\* waiters, no operation starts and no slot is taken in that step.
C23_NoIdleSlotNoBarging ==
    /\ [](Len(queue) > 0 => activeRequests = maxConcurrent)
    /\ [][ (ExecuteStep /\ Len(queue) > 0)
              => /\ queue' = Append(queue, queue'[Len(queue')])
                 /\ queue'[Len(queue')].call = nextCall'
                 /\ opPromise'[nextCall'].state = "none"
                 /\ started' = started
                 /\ activeRequests' = activeRequests ]_vars

\* a waiter was admitted when a slot was released, and a later call waits
\* while every slot is taken
C23_Witness ==
    /\ totalProcessed > 0
    /\ Len(queue) > 0
    /\ activeRequests = maxConcurrent
    /\ \E c \in Started : c > maxConcurrent /\ opPromise[c].state = "pending"

\* C24 as stated: with maxConcurrent fixed at K, at most K child processes
\* are alive (spawned, close event not yet occurred), execution timeouts
\* included.
C24_AliveProcessesBounded == Cardinality(Alive) <= maxConcurrent

\* call c leaves the queue in this step without being admitted
RemovedInStep(c) ==
    /\ c \in Waiting
    /\ c \notin Waiting'
    /\ opPromise'[c].state = "none"

\* call c fails with the queue-timeout error in this step
TimedOutInStep(c) ==
    /\ promise[c].state = "pending"
    /\ promise'[c] = Rejected("Request timeout")

\* C25 as stated: whatever request ids the calls carry, a call leaves the
\* queue unadmitted, or fails with the queue-timeout error, only in the step
\* of its own timer, after it has waited queueTimeout, and the two happen
\* together; the timer of an admitted call removes and rejects nothing.
C25_OwnTimerOnly ==
    [][ \A c \in Calls :
          /\ RemovedInStep(c) <=> TimedOutInStep(c)
          /\ RemovedInStep(c)
                => /\ timers # << >>
                   /\ Head(timers).call = c
                   /\ now - calledAt[c] >= queueTimeout ]_vars

\* C26 as stated: whatever request ids the calls carry, every execute call
\* eventually settles, given that time passes, timers fire and processes end.
C26_EveryCallSettles ==
    \A c \in Calls : (promise[c].state = "pending") ~> Settled(promise[c])

\* the calls of the first n entries of the queue q, in order
FirstCalls(q, n) == [i \in 1 .. n |-> q[i].call]

WaitingCalls ==
    {c \in Called : promise[c].state = "pending" /\ opPromise[c].state = "none"}

\* C28: in every reachable state getStats().activeRequests is the number of
\* operations that were started and have not settled, and
\* getStats().queuedRequests is the number of execute calls that were queued
\* and were neither admitted nor timed out; totalProcessed and totalWaitTime
\* never decrease.
C28_StatsConsistent ==
    /\ [](GetStats(cur).activeRequests = Cardinality(InFlight))
    /\ [](GetStats(cur).queuedRequests = Cardinality(WaitingCalls))
    /\ [](GetStats(cur).totalProcessed = totalProcessed)
    /\ [][ /\ totalProcessed' >= totalProcessed
           /\ totalWaitTime' >= totalWaitTime ]_vars

\* one operation runs, one call waits, and a call that had waited one unit of
\* time has been admitted after a completion
C28_Witness ==
    /\ GetStats(cur).activeRequests = 1
    /\ GetStats(cur).queuedRequests = 1
    /\ totalProcessed >= 1
    /\ totalWaitTime >= 1
    /\ Cardinality(InFlight) = 1
    /\ Cardinality(WaitingCalls) = 1

RmFailsInStep(c) ==
    /\ proc[c] = "running"
    /\ proc'[c] = "closed"
    /\ WorkDir(cur, c) \in dirs'

\* C30: when rmSync throws in the close handler the invocation is resolved in
\* that step all the same, with the result of the exit code and stdout if the
\* close event is the first event of the process and with the result it
\* already had otherwise, and its slot is released exactly once; the failure
\* is logged and nothing rejects.
C30_CleanupFailureContained ==
    /\ [][ \A c \in Calls :
              RmFailsInStep(c)
                  => /\ promise'[c].state = "fulfilled"
                     /\ events[c] = << >>
                           => promise'[c].value[1]
                                  = CloseResult(exit'[c], stdout[c], stderr[c])
                     /\ events[c] # << >> => promise'[c] = promise[c]
                     /\ releases'[c] = 1
                     /\ activeRequests' = Cardinality(InFlight')
                     /\ c \in cleanupWarnings' ]_vars
    /\ [](\A c \in Calls :
              (proc[c] = "closed" /\ WorkDir(cur, c) \in dirs)
                  => /\ promise[c].state = "fulfilled"
                     /\ releases[c] = 1
                     /\ c \in cleanupWarnings)

\* rmSync threw after a successful run: the directory is still there, the
\* caller has the content and the slot is free
C30_Witness ==
    \E c \in cleanupWarnings :
        /\ events[c] = << "close" >>
        /\ WorkDir(cur, c) \in dirs
        /\ promise[c].state = "fulfilled"
        /\ promise[c].value[1].success
        /\ promise[c].value[1].content = << "a" >>
        /\ releases[c] = 1
        /\ activeRequests = 0

\* the time at which the entries of logs stop blocking their IP: when the
\* oldest of the latest maxRequests entries leaves the window
BlockedUntil(logs) ==
    IF Len(logs) >= RateMaxRequests
    THEN logs[Len(logs) - RateMaxRequests + 1] + RateWindowTicks
    ELSE 0

\* C32: a request answered 429 adds no entry to the log of its IP, so the
\* time until which the IP is blocked stays what it was; and a request of
\* one IP leaves the logs of every other IP as they were
C32_RateLimitFrame ==
    [][ HttpStep
          => LET ip == GetClientIP(lastHttp'.req[1])
             IN  /\ lastHttp'.status = 429
                       => /\ requestLogs'[ip] =
                                 FilterValid(requestLogs[ip], now, RateWindowTicks)
                          /\ passed' = passed
                          /\ BlockedUntil(requestLogs'[ip]) =
                                 BlockedUntil(requestLogs[ip])
                          /\ BlockedUntil(requestLogs'[ip]) > now
                 /\ \A other \in IPs \ {ip} :
                       /\ requestLogs'[other] = requestLogs[other]
                       /\ passed'[other] = passed[other] ]_vars

\* an IP is rejected some time after its latest accepted request, while the
\* other IP has entries in its log
C32_Witness ==
    \E ip \in IPs :
        /\ httpCount > 0
        /\ GetClientIP(LastReq) = ip
        /\ lastHttp.status = 429
        /\ Len(requestLogs[ip]) = RateMaxRequests
        /\ now > requestLogs[ip][RateMaxRequests]
        /\ \E other \in IPs \ {ip} : requestLogs[other] # << >>

\* the stages of createApp in the order of app.use
StageOrder ==
    << "cors", "bodyParser", "requestLogger", "rateLimit", "auth", "route" >>

\* the stages that answer a request instead of calling next()
RejectingStages == {"cors", "bodyParser", "rateLimit", "auth"}

\* C31: the stages run in the order CORS, body parser, request logger, rate
\* limiter, authentication, route handler; a request that a stage rejects
\* enters no later stage and starts no execution; every request that enters
\* authentication has been added to the log of its IP by the rate limiter
\* before, also when authentication answers 401
C31_StageOrder ==
    [][ HttpStep
          => LET ip == GetClientIP(lastHttp'.req[1])
             IN  /\ Len(stages') \in 1 .. Len(StageOrder)
                 /\ stages' = SubSeq(StageOrder, 1, Len(stages'))
                 /\ lastHttp'.stage \in RejectingStages
                       => /\ stages'[Len(stages')] = lastHttp'.stage
                          /\ nextCall' = nextCall
                          /\ spawns' = spawns
                 /\ lastHttp'.stage \notin RejectingStages
                       => stages' = StageOrder
                 /\ Len(stages') >= 5
                       => requestLogs'[ip] =
                              Append(FilterValid(requestLogs[ip], now,
                                                 RateWindowTicks), now)
                 /\ Len(stages') < 4 => requestLogs' = requestLogs ]_vars

\* every request of one IP so far has passed the rate limiter, the latest
\* was answered 401 by authentication, and the quota of the IP is used up
C31_Witness ==
    /\ httpCount = RateMaxRequests
    /\ lastHttp.stage = "auth"
    /\ lastHttp.status = 401
    /\ stages = SubSeq(StageOrder, 1, 5)
    /\ Len(requestLogs[GetClientIP(LastReq)]) = RateMaxRequests
    /\ requestLogs[GetClientIP(LastReq)][RateMaxRequests] = now

\* a message with one of the three roles and a non-empty string as content
Acceptable(msg) ==
    /\ msg.role \in ValidRoles
    /\ msg.content.type = "string"
    /\ msg.content.text # << >>

\* a body that fails the validation of the chat handler: no model, messages
\* absent or no array, an empty array, or a message that is not acceptable
FailsValidation(body) ==
    \/ body.model = ""
    \/ body.messages.kind # "array"
    \/ body.messages.list = << >>
    \/ \E i \in 1 .. Len(body.messages.list) : ~Acceptable(body.messages.list[i])

\* C33: a chat request whose body fails validation is answered 400 with
\* code invalid_request_error and makes no execute call: activeRequests,
\* the queue, totalProcessed, the promises and the processes stay as they
\* were
C33_InvalidNeverExecutes ==
    [][ (/\ HttpStep
         /\ lastHttp'.stage = "chat"
         /\ FailsValidation(lastHttp'.req[1].body))
          => /\ lastHttp'.status = 400
             /\ lastHttp'.code = "invalid_request_error"
             /\ lastHttp'.call = 0
             /\ nextCall' = nextCall
             /\ activeRequests' = activeRequests
             /\ queue' = queue
             /\ totalProcessed' = totalProcessed
             /\ promise' = promise
             /\ proc' = proc
             /\ spawns' = spawns ]_vars

\* while one call runs and one waits, a request whose second message is
\* not acceptable is answered 400
C33_Witness ==
    /\ httpCount > 0
    /\ lastHttp.stage = "chat"
    /\ lastHttp.status = 400
    /\ LastReq.body.model # ""
    /\ LastReq.body.messages.kind = "array"
    /\ Len(LastReq.body.messages.list) = 2
    /\ Acceptable(LastReq.body.messages.list[1])
    /\ ~Acceptable(LastReq.body.messages.list[2])
    /\ activeRequests = 1
    /\ Len(queue) = 1
    /\ nextCall = 2

\* the last min(n, length) messages of a list, in their order
LastMessages(messages, n) ==
    LET k == IF Len(messages) < n THEN Len(messages) ELSE n
    IN  [i \in 1 .. k |-> messages[Len(messages) - k + i]]

\* the '[Role]' line of a message followed by its content
Block(msg) ==
    << "[" >> \o Capitalize(msg.role) \o << "]", "\n" >> \o msg.content.text

\* the blocks of the messages, one after the other with an empty line
\* between two of them
RECURSIVE Blocks(_)
Blocks(messages) ==
    IF messages = << >> THEN << >>
    ELSE IF Len(messages) = 1 THEN Block(messages[1])
    ELSE Block(messages[1]) \o << "\n", "\n" >> \o Blocks(Tail(messages))

\* C34 as stated: the prompt of a list is the prompt of its last
\* min(20, length) messages, and it consists of the '[Role]' line and the
\* content of each of these messages, in their order
C34_PromptOfLastTwenty ==
    LET last == LastMessages(lastPrompt.messages, MAX_MESSAGES)
    IN  /\ lastPrompt.text = BuildPrompt(last)
        /\ lastPrompt.text = Blocks(last)

\* C34, amended: the prompt of a list is the prompt of its last
\* min(20, length) messages; it consists of the '[Role]' line and the
\* content of each of these messages, in their order, without the white
\* space at its end
C34_PromptOfLastTwentyTrimmed ==
    LET last == LastMessages(lastPrompt.messages, MAX_MESSAGES)
    IN  /\ lastPrompt.text = BuildPrompt(last)
        /\ lastPrompt.text = TrimEnd(Blocks(last))

\* a prompt was built from more than 20 messages of which one that is
\* dropped differs from those that are kept, and the content of the last
\* message ends with white space
C34_Witness ==
    LET n == Len(lastPrompt.messages)
    IN  /\ n > MAX_MESSAGES
        /\ lastPrompt.messages[1] # lastPrompt.messages[n]
        /\ lastPrompt.messages[n].content.text = << "a", " " >>
        /\ lastPrompt.text # << >>
        /\ lastPrompt.text[Len(lastPrompt.text)] = "a"
        /\ lastPrompt.text = BuildPrompt(LastMessages(lastPrompt.messages, MAX_MESSAGES))

TypeOK ==
    /\ activeRequests \in Int
    /\ maxConcurrent \in 1 .. MaxK
    /\ nextCall \in 0 .. MaxCalls

====
